---- MODULE Spec2Model ----
(***************************************************************************)
(* Model of the tool-calling conversation loop of omnifocus-mcp            *)
(* (local_mcp_agent.py): the model channel, the tool-call extractor, the   *)
(* dispatcher call_mcp_server and the orchestrator mcp_conversation.       *)
(*                                                                         *)
(* Python values are tagged records [t |-> tag, v |-> payload]; a dict is  *)
(* a sequence of <<key, value>> pairs in insertion order; Python strings   *)
(* are TLA+ strings, read character by character with SubSeq.              *)
(***************************************************************************)
EXTENDS Integers, Sequences, FiniteSets, TLC

\* Number of user turns explored in one run of the loop.
MaxTurns == 2

----------------------------------------------------------------------------
(* Characters and strings                                                  *)

\* The characters the model distinguishes, in ASCII order.
AsciiOrder == " \"',-/0123456789:ABCDEFGHIJKLMNOPQRSTUVWXYZ[]_abcdefghijklmnopqrstuvwxyz{}"

UpperChars == "ABCDEFGHIJKLMNOPQRSTUVWXYZ"
LowerChars == "abcdefghijklmnopqrstuvwxyz"
DigitChars == "0123456789"

CharAt(s, i) == SubSeq(s, i, i)

\* c occurs in the string s
InStr(c, s) == \E i \in 1..Len(s) : CharAt(s, i) = c

IndexIn(c, s) == CHOOSE i \in 1..Len(s) : CharAt(s, i) = c

\* ord(ch), as a rank in AsciiOrder
Ord(c) == IndexIn(c, AsciiOrder)

\* str.isalnum() for one character
IsAlnum(c) == InStr(c, UpperChars) \/ InStr(c, LowerChars) \/ InStr(c, DigitChars)

\* str.lower() for one character
LowerChar(c) == IF InStr(c, UpperChars) THEN CharAt(LowerChars, IndexIn(c, UpperChars)) ELSE c

\* str.upper() for one character
UpperChar(c) == IF InStr(c, LowerChars) THEN CharAt(UpperChars, IndexIn(c, LowerChars)) ELSE c

RECURSIVE Lower(_)
Lower(s) == IF Len(s) = 0 THEN "" ELSE LowerChar(CharAt(s, 1)) \o Lower(Tail(s))

RECURSIVE Upper(_)
Upper(s) == IF Len(s) = 0 THEN "" ELSE UpperChar(CharAt(s, 1)) \o Upper(Tail(s))

\* s.rstrip("/")
RECURSIVE RStripSlash(_)
RStripSlash(s) ==
    IF Len(s) > 0 /\ CharAt(s, Len(s)) = "/"
    THEN RStripSlash(SubSeq(s, 1, Len(s) - 1))
    ELSE s

\* s.strip(): spaces, tabs, line feeds and carriage returns go
RECURSIVE LStrip(_)
LStrip(s) == IF Len(s) > 0 /\ CharAt(s, 1) \in {" ", "\t", "\n", "\r"} THEN LStrip(Tail(s)) ELSE s

RECURSIVE RStrip(_)
RStrip(s) ==
    IF Len(s) > 0 /\ CharAt(s, Len(s)) \in {" ", "\t", "\n", "\r"}
    THEN RStrip(SubSeq(s, 1, Len(s) - 1))
    ELSE s

Strip(s) == RStrip(LStrip(s))

\* s.startswith(p)
StartsWith(s, p) == Len(s) >= Len(p) /\ SubSeq(s, 1, Len(p)) = p

\* p in s
Contains(s, p) == \E i \in 1..(Len(s) - Len(p) + 1) : SubSeq(s, i, i + Len(p) - 1) = p

\* a < b for Python strings (lexicographic by code point)
RECURSIVE StrLess(_, _)
StrLess(a, b) ==
    IF Len(b) = 0 THEN FALSE
    ELSE IF Len(a) = 0 THEN TRUE
    ELSE IF CharAt(a, 1) = CharAt(b, 1) THEN StrLess(Tail(a), Tail(b))
    ELSE Ord(CharAt(a, 1)) < Ord(CharAt(b, 1))

\* sorted(S) for a set of strings
RECURSIVE SortedStrs(_)
SortedStrs(S) ==
    IF S = {} THEN <<>>
    ELSE LET m == CHOOSE x \in S : \A y \in S \ {x} : StrLess(x, y)
         IN  <<m>> \o SortedStrs(S \ {m})

\* ", ".join(xs)
RECURSIVE JoinComma(_)
JoinComma(xs) ==
    IF Len(xs) = 0 THEN ""
    ELSE IF Len(xs) = 1 THEN xs[1]
    ELSE xs[1] \o ", " \o JoinComma(Tail(xs))

----------------------------------------------------------------------------
(* Python values                                                           *)

PyNone == [t |-> "none", v |-> 0]
PyBool(b) == [t |-> "bool", v |-> b]
PyInt(n) == [t |-> "int", v |-> n]
PyStr(s) == [t |-> "str", v |-> s]
PyList(xs) == [t |-> "list", v |-> xs]
\* a dict: its items as <<key, value>> pairs, keys unique, in insertion order
PyDict(items) == [t |-> "dict", v |-> items]
EmptyDict == PyDict(<<>>)

\* isinstance(x, dict), isinstance(x, str)
IsDict(x) == x.t = "dict"
IsStr(x) == x.t = "str"

\* bool(x)
Truthy(x) ==
    CASE x.t = "none" -> FALSE
      [] x.t = "bool" -> x.v
      [] x.t = "int"  -> x.v # 0
      [] x.t = "str"  -> Len(x.v) > 0
      [] OTHER        -> Len(x.v) > 0

DictKeys(d) == {d.v[i][1] : i \in 1..Len(d.v)}

\* key in d
HasKey(d, k) == k \in DictKeys(d)

\* d[k], for a key of d
DictAt(d, k) == d.v[CHOOSE i \in 1..Len(d.v) : d.v[i][1] = k][2]

\* d.get(k, default)
DictGet(d, k, default) == IF HasKey(d, k) THEN DictAt(d, k) ELSE default

\* d[k] = val: an existing key keeps its place, a new key goes last
DictSet(d, k, val) ==
    IF HasKey(d, k)
    THEN PyDict([i \in 1..Len(d.v) |-> IF d.v[i][1] = k THEN <<k, val>> ELSE d.v[i]])
    ELSE PyDict(Append(d.v, <<k, val>>))

\* str(n) for an integer
RECURSIVE NatStr(_)
NatStr(n) == IF n < 10 THEN CharAt(DigitChars, n + 1) ELSE NatStr(n \div 10) \o CharAt(DigitChars, (n % 10) + 1)

IntStr(n) == IF n < 0 THEN "-" \o NatStr(0 - n) ELSE NatStr(n)

\* repr(s) for a string without backslashes: single quotes, double quotes
\* when s holds a single quote and no double quote
RECURSIVE EscapeApostrophe(_)
EscapeApostrophe(s) ==
    IF Len(s) = 0 THEN ""
    ELSE (IF CharAt(s, 1) = "'" THEN "\\'" ELSE CharAt(s, 1)) \o EscapeApostrophe(Tail(s))

StrRepr(s) ==
    IF InStr("'", s) /\ ~InStr("\"", s) THEN "\"" \o s \o "\""
    ELSE "'" \o EscapeApostrophe(s) \o "'"

\* repr(x) and str(x): str of a string is the string, of anything else its repr
RECURSIVE PyRepr(_), PyReprItems(_, _)
PyRepr(x) ==
    CASE x.t = "none" -> "None"
      [] x.t = "bool" -> IF x.v THEN "True" ELSE "False"
      [] x.t = "int"  -> IntStr(x.v)
      [] x.t = "str"  -> StrRepr(x.v)
      [] x.t = "list" -> "[" \o PyReprItems(x.v, FALSE) \o "]"
      [] x.t = "dict" -> "{" \o PyReprItems(x.v, TRUE) \o "}"

PyReprItems(xs, pairs) ==
    IF Len(xs) = 0 THEN ""
    ELSE (IF pairs THEN StrRepr(xs[1][1]) \o ": " \o PyRepr(xs[1][2]) ELSE PyRepr(xs[1]))
         \o (IF Len(xs) = 1 THEN "" ELSE ", " \o PyReprItems(Tail(xs), pairs))

StrOf(x) == IF x.t = "str" THEN x.v ELSE PyRepr(x)

----------------------------------------------------------------------------
(* json.dumps and json.loads                                               *)

Quote == "\""
Backslash == "\\"

\* the escaping json.dumps applies inside a string: a backslash before every
\* quote and backslash
RECURSIVE JsonEscape(_), EscapeAt(_, _)
JsonEscape(s) ==
    EscapeAt(s, IF \E j \in 1..Len(s) : CharAt(s, j) \in {Quote, Backslash}
                THEN CHOOSE j \in 1..Len(s) :
                        /\ CharAt(s, j) \in {Quote, Backslash}
                        /\ \A k \in 1..(j - 1) : CharAt(s, k) \notin {Quote, Backslash}
                ELSE 0)

EscapeAt(s, j) ==
    IF j = 0 THEN s
    ELSE SubSeq(s, 1, j - 1) \o Backslash \o CharAt(s, j) \o JsonEscape(SubSeq(s, j + 1, Len(s)))

\* json.dumps(x) with the default separators
RECURSIVE JsonDumps(_), JsonDumpsItems(_, _)
JsonDumps(x) ==
    CASE x.t = "none" -> "null"
      [] x.t = "bool" -> IF x.v THEN "true" ELSE "false"
      [] x.t = "int"  -> IntStr(x.v)
      [] x.t = "str"  -> Quote \o JsonEscape(x.v) \o Quote
      [] x.t = "list" -> "[" \o JsonDumpsItems(x.v, FALSE) \o "]"
      [] x.t = "dict" -> "{" \o JsonDumpsItems(x.v, TRUE) \o "}"

JsonDumpsItems(xs, pairs) ==
    IF Len(xs) = 0 THEN ""
    ELSE (IF pairs
          THEN Quote \o JsonEscape(xs[1][1]) \o Quote \o ": " \o JsonDumps(xs[1][2])
          ELSE JsonDumps(xs[1]))
         \o (IF Len(xs) = 1 THEN "" ELSE ", " \o JsonDumpsItems(Tail(xs), pairs))

\* json.loads: a recursive-descent reading of s; each step returns
\* [ok, val, pos], pos being the position after what was read. Covers objects,
\* arrays, strings with \" and \\ escapes, integers and the literals true,
\* false, null; whitespace is the space. Each step hands what it has read to
\* the next step as an argument.
ParseFail == [ok |-> FALSE, val |-> PyNone, pos |-> 0]
ParseOk(val, pos) == [ok |-> TRUE, val |-> val, pos |-> pos]

RECURSIVE SkipWs(_, _)
SkipWs(s, i) == IF i <= Len(s) /\ CharAt(s, i) = " " THEN SkipWs(s, i + 1) ELSE i

\* the first position from i on that holds a quote or a backslash, 0 if none
FirstOf(hits) == IF hits = {} THEN 0 ELSE CHOOSE j \in hits : \A k \in hits : j <= k

NextSpecial(s, i) == FirstOf({j \in i..Len(s) : CharAt(s, j) \in {Quote, Backslash}})

\* the characters of a string literal from position i (after the opening
\* quote), read in runs between escapes
RECURSIVE ParseStringTail(_, _, _), StringRun(_, _, _, _)
ParseStringTail(s, i, acc) == StringRun(s, i, NextSpecial(s, i), acc)

StringRun(s, i, j, acc) ==
    IF j = 0 THEN ParseFail
    ELSE IF CharAt(s, j) = Quote THEN ParseOk(PyStr(acc \o SubSeq(s, i, j - 1)), j + 1)
    ELSE IF j + 1 <= Len(s) /\ CharAt(s, j + 1) \in {Quote, Backslash, "/"}
         THEN ParseStringTail(s, j + 2, acc \o SubSeq(s, i, j - 1) \o CharAt(s, j + 1))
    ELSE ParseFail

\* the digits of an integer from position i
RECURSIVE ParseDigits(_, _, _)
ParseDigits(s, i, acc) ==
    IF i <= Len(s) /\ InStr(CharAt(s, i), DigitChars)
    THEN ParseDigits(s, i + 1, acc * 10 + (IndexIn(CharAt(s, i), DigitChars) - 1))
    ELSE [val |-> acc, pos |-> i]

\* an integer whose digits d start at position start; "01" is not JSON
NumberOf(s, neg, start, d) ==
    IF d.pos = start THEN ParseFail
    ELSE IF CharAt(s, start) = "0" /\ d.pos > start + 1 THEN ParseFail
    ELSE ParseOk(PyInt(IF neg THEN 0 - d.val ELSE d.val), d.pos)

ParseNumber(s, i) ==
    IF CharAt(s, i) = "-"
    THEN NumberOf(s, TRUE, i + 1, ParseDigits(s, i + 1, 0))
    ELSE NumberOf(s, FALSE, i, ParseDigits(s, i, 0))

ParseLiteral(s, i, word, val) ==
    IF i + Len(word) - 1 <= Len(s) /\ SubSeq(s, i, i + Len(word) - 1) = word
    THEN ParseOk(val, i + Len(word))
    ELSE ParseFail

RECURSIVE ParseValue(_, _), ValueAt(_, _), ObjectFrom(_, _), ArrayFrom(_, _),
          ParseMembers(_, _, _), MemberKey(_, _, _), MemberColon(_, _, _, _),
          MemberValue(_, _, _, _), MemberEnd(_, _, _),
          ParseElements(_, _, _), ElementValue(_, _, _), ElementEnd(_, _, _)
ParseValue(s, i) == ValueAt(s, SkipWs(s, i))

ValueAt(s, i) ==
    IF i > Len(s) THEN ParseFail
    ELSE CASE CharAt(s, i) = "{" -> ObjectFrom(s, SkipWs(s, i + 1))
           [] CharAt(s, i) = "[" -> ArrayFrom(s, SkipWs(s, i + 1))
           [] CharAt(s, i) = Quote -> ParseStringTail(s, i + 1, "")
           [] CharAt(s, i) = "-" \/ InStr(CharAt(s, i), DigitChars) -> ParseNumber(s, i)
           [] CharAt(s, i) = "t" -> ParseLiteral(s, i, "true", PyBool(TRUE))
           [] CharAt(s, i) = "f" -> ParseLiteral(s, i, "false", PyBool(FALSE))
           [] CharAt(s, i) = "n" -> ParseLiteral(s, i, "null", PyNone)
           [] OTHER -> ParseFail

ObjectFrom(s, j) ==
    IF j <= Len(s) /\ CharAt(s, j) = "}" THEN ParseOk(EmptyDict, j + 1)
    ELSE ParseMembers(s, j, EmptyDict)

ArrayFrom(s, j) ==
    IF j <= Len(s) /\ CharAt(s, j) = "]" THEN ParseOk(PyList(<<>>), j + 1)
    ELSE ParseElements(s, j, <<>>)

\* "key": value pairs up to the closing brace; a repeated key takes the last value
ParseMembers(s, i, acc) ==
    IF i > Len(s) \/ CharAt(s, i) # Quote THEN ParseFail
    ELSE MemberKey(s, ParseStringTail(s, i + 1, ""), acc)

MemberKey(s, k, acc) ==
    IF ~k.ok THEN ParseFail ELSE MemberColon(s, k.val.v, SkipWs(s, k.pos), acc)

MemberColon(s, key, c, acc) ==
    IF c > Len(s) \/ CharAt(s, c) # ":" THEN ParseFail
    ELSE MemberValue(s, key, ParseValue(s, c + 1), acc)

MemberValue(s, key, val, acc) ==
    IF ~val.ok THEN ParseFail
    ELSE MemberEnd(s, SkipWs(s, val.pos), DictSet(acc, key, val.val))

MemberEnd(s, e, acc) ==
    IF e > Len(s) THEN ParseFail
    ELSE IF CharAt(s, e) = "}" THEN ParseOk(acc, e + 1)
    ELSE IF CharAt(s, e) = "," THEN ParseMembers(s, SkipWs(s, e + 1), acc)
    ELSE ParseFail

ParseElements(s, i, acc) == ElementValue(s, ParseValue(s, i), acc)

ElementValue(s, val, acc) ==
    IF ~val.ok THEN ParseFail
    ELSE ElementEnd(s, SkipWs(s, val.pos), Append(acc, val.val))

ElementEnd(s, e, acc) ==
    IF e > Len(s) THEN ParseFail
    ELSE IF CharAt(s, e) = "]" THEN ParseOk(PyList(acc), e + 1)
    ELSE IF CharAt(s, e) = "," THEN ParseElements(s, e + 1, acc)
    ELSE ParseFail

\* nothing but whitespace may follow the value
WholeText(s, r) == IF r.ok /\ SkipWs(s, r.pos) > Len(s) THEN r ELSE ParseFail

\* json.loads(s): [ok |-> TRUE, val] or, on JSONDecodeError, [ok |-> FALSE]
JsonLoads(s) == WholeText(s, ParseValue(s, 1))

----------------------------------------------------------------------------
(* Results of calls: a returned value or a raised exception                *)

NoExc == [type |-> "", msg |-> ""]
Exc(type, msg) == [type |-> type, msg |-> msg]
Ret(val) == [raised |-> FALSE, exc |-> NoExc, val |-> val]
Raise(type, msg) == [raised |-> TRUE, exc |-> Exc(type, msg), val |-> PyNone]

----------------------------------------------------------------------------
(* The manifest and what mcp_conversation builds from it                   *)

DefaultBaseUrl == "http://localhost:8000"

\* The manifests the loop is started with (the tools of manifest.json).
Manifests ==
    { PyDict(<< <<"tools", PyList(<<
          PyDict(<< <<"name", PyStr("list_tasks")>>, <<"path", PyStr("/tasks/list")>> >>) >>)>> >>),
      PyDict(<< <<"base_url", PyStr("http://h:8000/")>>,
                <<"tools", PyList(<<
          PyDict(<< <<"name", PyStr("list_tasks")>>, <<"method", PyStr("get")>>,
                    <<"description", PyStr("List tasks")>> >>),
          PyDict(<< <<"name", PyStr("add_task")>>,
                    <<"input_schema", PyDict(<< <<"type", PyStr("object")>> >>)>> >>) >>)>> >>) }

\* manifest.get("base_url", "http://localhost:8000")
BaseUrlOf(manifest) == DictGet(manifest, "base_url", PyStr(DefaultBaseUrl)).v

\* manifest.get("tools", [])
ToolsListOf(manifest) == DictGet(manifest, "tools", PyList(<<>>)).v

\* {tool["name"]: tool for tool in tools_list}
RECURSIVE ToolsDictFrom(_, _)
ToolsDictFrom(tools_list, acc) ==
    IF Len(tools_list) = 0 THEN acc
    ELSE ToolsDictFrom(Tail(tools_list),
                       DictSet(acc, DictAt(tools_list[1], "name").v, tools_list[1]))

ToolsOf(manifest) == ToolsDictFrom(ToolsListOf(manifest), EmptyDict)

DefaultParams ==
    PyDict(<< <<"type", PyStr("object")>>, <<"properties", EmptyDict>>, <<"required", PyList(<<>>)>> >>)

\* mcp_tools_to_ollama_tools(manifest)
mcp_tools_to_ollama_tools(manifest) ==
    LET tl == ToolsListOf(manifest)
        params(tool) == LET p == DictGet(tool, "input_schema", PyNone)
                        IN  IF Truthy(p) THEN p ELSE DefaultParams
    IN  PyList([i \in 1..Len(tl) |->
            PyDict(<< <<"name", DictGet(tl[i], "name", PyNone)>>,
                      <<"description", DictGet(tl[i], "description", PyStr(""))>>,
                      <<"parameters", params(tl[i])>> >>)])

----------------------------------------------------------------------------
(* call_local_model: the payload posted to the model backend               *)

ModelName == "qwen2.5:7b-instruct"

\* ModelPayload that sets the functions field whatever tools is
ModelPayloadAlways(messages, tools) ==
    PyDict(<< <<"model", PyStr(ModelName)>>,
              <<"messages", PyList(messages)>>,
              <<"stream", PyBool(FALSE)>>,
              <<"functions", tools>> >>)

ModelPayload(messages, tools) ==
    LET base == PyDict(<< <<"model", PyStr(ModelName)>>,
                          <<"messages", PyList(messages)>>,
                          <<"stream", PyBool(FALSE)>> >>)
    IN  IF Truthy(tools) THEN DictSet(base, "functions", tools) ELSE base

----------------------------------------------------------------------------
(* extract_tool_call                                                       *)

\* DecodedArgs without the except clause
DecodedArgsRaising(r) == IF r.ok THEN Ret(r.val) ELSE Raise("JSONDecodeError", "Expecting value")

\* json.loads(args_raw) inside try/except JSONDecodeError: undecodable gives {}
DecodedArgs(r) == IF r.ok THEN Ret(r.val) ELSE Ret(EmptyDict)

\* The arguments of a call from args_raw: a dict is taken as it is, a falsy
\* value gives {}, a string is decoded, and any other truthy value makes
\* json.loads raise TypeError.
ArgsFrom(args_raw) ==
    IF IsDict(args_raw) THEN Ret(args_raw)
    ELSE IF ~Truthy(args_raw) THEN Ret(EmptyDict)
    ELSE IF IsStr(args_raw) THEN DecodedArgs(JsonLoads(args_raw.v))
    ELSE Raise("TypeError", "the JSON object must be str, bytes or bytearray")

\* fn_call.get("arguments", "{}") and its decoding
ArgsOf(fn_call) == ArgsFrom(DictGet(fn_call, "arguments", PyStr("{}")))

\* {"name": fn_call.get("name"), "arguments": args}
NamedCall(fn_call, a) ==
    IF a.raised THEN a
    ELSE Ret(PyDict(<< <<"name", DictGet(fn_call, "name", PyNone)>>, <<"arguments", a.val>> >>))

\* The call of a truthy function_call value
CallFrom(fn_call) ==
    IF ~IsDict(fn_call) THEN Raise("AttributeError", "object has no attribute 'get'")
    ELSE NamedCall(fn_call, ArgsOf(fn_call))

\* [0] of response.get("messages", [{}])
FirstMessage(ms) ==
    IF ms.t = "list" /\ Len(ms.v) > 0 THEN Ret(ms.v[1])
    ELSE IF ms.t = "list" THEN Raise("IndexError", "list index out of range")
    ELSE Raise("TypeError", "object is not subscriptable")

\* response.get("message") or response.get("messages", [{}])[0]
MessageOf(response) ==
    IF Truthy(DictGet(response, "message", PyNone))
    THEN Ret(DictGet(response, "message", PyNone))
    ELSE FirstMessage(DictGet(response, "messages", PyList(<<EmptyDict>>)))

\* except Exception around the embedded strategy: an exception gives no call
Swallowed(c) == IF c.raised THEN Ret(PyNone) ELSE c

\* parsed.get("function_call") of the decoded content
EmbeddedField(fn_call) == IF Truthy(fn_call) THEN Swallowed(CallFrom(fn_call)) ELSE Ret(PyNone)

\* EmbeddedParsed without the outer try
EmbeddedParsedRaising(parsed) ==
    IF parsed.ok THEN EmbeddedField(DictGet(parsed.val, "function_call", PyNone))
    ELSE Raise("JSONDecodeError", "Expecting value")

EmbeddedParsed(parsed) ==
    IF parsed.ok THEN EmbeddedField(DictGet(parsed.val, "function_call", PyNone))
    ELSE Ret(PyNone)

\* The embedded-JSON strategy on the trimmed content
EmbeddedIn(trimmed) ==
    IF StartsWith(trimmed, "{") /\ Contains(trimmed, "function_call")
    THEN EmbeddedParsed(JsonLoads(trimmed))
    ELSE Ret(PyNone)

EmbeddedCall(content) == IF IsStr(content) THEN EmbeddedIn(Strip(content.v)) ELSE Ret(PyNone)

\* CallOfMessage that tries the content first and the structured field second
CallOfMessageEmbeddedFirst(message, fn_call) ==
    IF EmbeddedCall(DictGet(message, "content", PyNone)).val # PyNone
    THEN EmbeddedCall(DictGet(message, "content", PyNone))
    ELSE IF Truthy(fn_call) THEN CallFrom(fn_call)
    ELSE Ret(PyNone)

\* The structured field first, the content second
CallOfMessage(message, fn_call) ==
    IF Truthy(fn_call) THEN CallFrom(fn_call)
    ELSE EmbeddedCall(DictGet(message, "content", PyNone))

ExtractFrom(msg) ==
    IF msg.raised THEN msg
    ELSE IF ~Truthy(msg.val) THEN Ret(PyNone)
    ELSE IF ~IsDict(msg.val) THEN Raise("AttributeError", "object has no attribute 'get'")
    ELSE CallOfMessage(msg.val, DictGet(msg.val, "function_call", PyNone))

extract_tool_call(response) == ExtractFrom(MessageOf(response))

----------------------------------------------------------------------------
(* call_mcp_server                                                         *)

\* normalize(name): keep alphanumerics and "_", lower-cased
RECURSIVE normalize(_)
normalize(name) ==
    IF Len(name) = 0 THEN ""
    ELSE (IF IsAlnum(CharAt(name, 1)) \/ CharAt(name, 1) = "_" THEN LowerChar(CharAt(name, 1)) ELSE "")
         \o normalize(Tail(name))

\* {normalize(k): k for k in tools}: of the keys sharing a normalized form
\* the one inserted last stays
RECURSIVE CandidatesFrom(_, _)
CandidatesFrom(items, acc) ==
    IF Len(items) = 0 THEN acc
    ELSE CandidatesFrom(Tail(items), DictSet(acc, normalize(items[1][1]), PyStr(items[1][1])))

Candidates(tools) == CandidatesFrom(tools.v, EmptyDict)

\* UnknownToolMsg without the list of valid names
UnknownToolMsgBare(tool_name, tools) == "Unknown tool: '" \o tool_name \o "'"

UnknownToolMsg(tool_name, tools) ==
    "Unknown tool: '" \o tool_name \o "'. Valid tools are: " \o JoinComma(SortedStrs(DictKeys(tools)))

\* The lookup of the normalized name among the candidates
NormalizedLookup(tool_name, norm, candidates, tools) ==
    IF HasKey(candidates, norm) THEN Ret(DictAt(candidates, norm))
    ELSE Raise("RuntimeError", UnknownToolMsg(tool_name, tools))

\* ResolveTool that looks the normalized name up without trying the name
\* itself first
ResolveToolNormalizedFirst(tool_name, tools) ==
    IF tool_name.t \in {"list", "dict"} THEN Raise("TypeError", "unhashable type")
    ELSE IF ~IsStr(tool_name) THEN Raise("TypeError", "object is not iterable")
    ELSE NormalizedLookup(tool_name.v, normalize(tool_name.v), Candidates(tools), tools)

\* The name the call is dispatched under: the name itself when it is a key of
\* tools, else the key its normalized form stands for, else an error.
ResolveTool(tool_name, tools) ==
    IF tool_name.t \in {"list", "dict"} THEN Raise("TypeError", "unhashable type")
    ELSE IF IsStr(tool_name) /\ HasKey(tools, tool_name.v) THEN Ret(tool_name)
    ELSE IF ~IsStr(tool_name) THEN Raise("TypeError", "object is not iterable")
    ELSE NormalizedLookup(tool_name.v, normalize(tool_name.v), Candidates(tools), tools)

InvalidArgumentsMsg(arguments) == "Tool arguments must be an object, got: " \o StrOf(arguments)

\* RequestOf that posts whatever the method
RequestOfAlwaysPost(method, url, arguments) ==
    [method |-> "POST", url |-> url, carrier |-> "json", payload |-> arguments]

\* requests.get(url, params=arguments) or requests.post(url, json=arguments)
RequestOf(method, url, arguments) ==
    IF method = "GET"
    THEN [method |-> "GET", url |-> url, carrier |-> "params", payload |-> arguments]
    ELSE [method |-> "POST", url |-> url, carrier |-> "json", payload |-> arguments]

\* tool_def.get("path") or f"/mcp/{tool_name}"
PathOf(p, name) == IF Truthy(p) THEN p.v ELSE "/mcp/" \o name

\* The HTTP request of a resolved call
RequestFor(name, arguments, tools, base_url) ==
    RequestOf(Upper(DictGet(DictAt(tools, name), "method", PyStr("POST")).v),
              RStripSlash(base_url) \o PathOf(DictGet(DictAt(tools, name), "path", PyNone), name),
              arguments)

\* What the backend may answer to a request: no answer (unreachable, timeout),
\* or a status with a body.
BackendOutcomes ==
    { [transport |-> TRUE,  status |-> 0,   body |-> ""],
      [transport |-> FALSE, status |-> 200, body |-> "{\"tasks\": []}"],
      [transport |-> FALSE, status |-> 200, body |-> "OK"],
      [transport |-> FALSE, status |-> 500, body |-> "{\"error\": \"script failed\"}"] }

\* resp.json()
JsonBody(r) == IF r.ok THEN Ret(r.val) ELSE Raise("JSONDecodeError", "Expecting value")

\* requests.get/post, resp.raise_for_status(), resp.json()
BackendReply(request, outcome) ==
    IF outcome.transport THEN Raise("ConnectionError", "Connection refused: " \o request.url)
    ELSE IF outcome.status >= 400
         THEN Raise("HTTPError", IntStr(outcome.status)
                        \o (IF outcome.status < 500 THEN " Client Error" ELSE " Server Error")
                        \o " for url: " \o request.url)
    ELSE JsonBody(JsonLoads(outcome.body))

\* The request is issued and answered
Issue(request, outcome) == [res |-> BackendReply(request, outcome), sent |-> <<request>>]

\* CallResolved without the isinstance check of the arguments
CallResolvedUnchecked(resolved, arguments, tools, base_url, outcome) ==
    IF resolved.raised THEN [res |-> resolved, sent |-> <<>>]
    ELSE Issue(RequestFor(resolved.val.v, arguments, tools, base_url), outcome)

\* call_mcp_server after the name resolution
CallResolved(resolved, arguments, tools, base_url, outcome) ==
    IF resolved.raised THEN [res |-> resolved, sent |-> <<>>]
    ELSE IF ~IsDict(arguments)
         THEN [res |-> Raise("RuntimeError", InvalidArgumentsMsg(arguments)), sent |-> <<>>]
    ELSE Issue(RequestFor(resolved.val.v, arguments, tools, base_url), outcome)

\* call_mcp_server(tool_name, arguments, tools, base_url), the backend
\* answering with outcome; sent holds the request issued, if one was.
call_mcp_server(tool_name, arguments, tools, base_url, outcome) ==
    CallResolved(ResolveTool(tool_name, tools), arguments, tools, base_url, outcome)

----------------------------------------------------------------------------
(* mcp_conversation: the loop                                              *)

\* What the user may type at the prompt.
UserInputs == {"list my tasks", "Quit"}

FnCall(name, arguments) ==
    PyDict(<< <<"message", PyDict(<< <<"role", PyStr("assistant")>>, <<"content", PyStr("")>>,
                <<"function_call", PyDict(<< <<"name", name>>, <<"arguments", arguments>> >>)>> >>)>> >>)

Answer(content) ==
    PyDict(<< <<"message", PyDict(<< <<"role", PyStr("assistant")>>, <<"content", content>> >>)>> >>)

\* What the model backend may answer in the loop (resp.json() of
\* call_local_model): an answer, an empty answer, a call that can succeed, a
\* call of an unknown tool, a call whose arguments decode to a list, a call
\* under a name that matches a tool only after normalization.
Responses ==
    { Answer(PyStr("Hello")),
      Answer(PyStr("")),
      FnCall(PyStr("list_tasks"), PyStr("{}")),
      FnCall(PyStr("LIST_TASKS"), PyStr("{}")),
      FnCall(PyStr("frobulate"), EmptyDict),
      FnCall(PyStr("add_task"), PyStr("[1]")) }

\* The system prompt: the fixed rules text is abbreviated, the tool list is
\* built from the manifest ("- name: description" lines).
RECURSIVE ToolNamesList(_)
ToolNamesList(tools_list) ==
    IF Len(tools_list) = 0 THEN ""
    ELSE LET line == "- " \o DictAt(tools_list[1], "name").v \o ": "
                          \o DictGet(tools_list[1], "description", PyStr("")).v
         IN  IF Len(tools_list) = 1 THEN line ELSE line \o "\n" \o ToolNamesList(Tail(tools_list))

SystemMessage(tools_list) ==
    PyDict(<< <<"role", PyStr("system")>>,
              <<"content", PyStr("You are an MCP-compatible agent with access to these EXACT functions (use these names exactly):\n\n"
                                  \o ToolNamesList(tools_list))>> >>)

SeedAssistantMessage ==
    PyDict(<< <<"role", PyStr("assistant")>>,
              <<"content", PyStr("{\"function_call\": {\"name\": \"list_tasks\", \"arguments\": {}}}")>> >>)

UserMessage(text) == PyDict(<< <<"role", PyStr("user")>>, <<"content", PyStr(text)>> >>)

ToolMessage(name, content) ==
    PyDict(<< <<"role", PyStr("tool")>>, <<"name", name>>, <<"content", PyStr(content)>> >>)

\* json.dumps({"error": str(exc)})
ErrorContent(exc) == JsonDumps(PyDict(<< <<"error", PyStr(exc.msg)>> >>))

\* f"Error calling tool {tool_name}: {exc}"
ErrorMsg(tool_name, exc) == "Error calling tool " \o StrOf(tool_name) \o ": " \o exc.msg

\* response2.get("message", {}).get("content")
AssistantMsg(response) ==
    LET m == DictGet(response, "message", EmptyDict)
    IN  IF IsDict(m) THEN Ret(DictGet(m, "content", PyNone))
        ELSE Raise("AttributeError", "object has no attribute 'get'")

VARIABLES
    pc,               \* where the loop stands
    base_url,         \* locals of mcp_conversation built from the manifest
    tools,
    tools_ollama,
    conversation,     \* the transcript, a sequence of messages
    response,         \* the first model answer of the turn
    response2,        \* the model answer after a tool message
    tool_call,        \* the extracted call waiting to be dispatched
    turn,             \* user turns started
    model_calls,      \* payloads posted to the model in the current turn
    dispatches,       \* call_mcp_server calls of the current turn
    printed,          \* what the current turn printed, <<label, value>>
    fn_in,            \* a single function call under test: its inputs
    fn_out            \* and its result

vars == <<pc, base_url, tools, tools_ollama, conversation, response, response2, tool_call, turn,
          model_calls, dispatches, printed, fn_in, fn_out>>

\* the single-call variables, which the loop leaves alone
harness == <<fn_in, fn_out>>

NoInput == [fn |-> "none"]
NotCalled == [done |-> FALSE]

registry == <<base_url, tools, tools_ollama>>

\* The state mcp_conversation is in when it first prompts the user.
ConstructedFrom(manifest) ==
    /\ pc = "AwaitingUser"
    /\ base_url = BaseUrlOf(manifest)
    /\ tools = ToolsOf(manifest)
    /\ tools_ollama = mcp_tools_to_ollama_tools(manifest)
    /\ conversation = <<SystemMessage(ToolsListOf(manifest)), SeedAssistantMessage>>
    /\ response = PyNone
    /\ response2 = PyNone
    /\ tool_call = PyNone
    /\ turn = 0
    /\ model_calls = <<>>
    /\ dispatches = <<>>
    /\ printed = <<>>

Constructed == \E manifest \in Manifests : ConstructedFrom(manifest)

Init == Constructed /\ fn_in = NoInput /\ fn_out = NotCalled

\* call_local_model(conversation, tools=tools_ollama) is issued on conv
QueryModel(conv) == Append(model_calls, ModelPayload(conv, tools_ollama))

\* One call_mcp_server call, as the loop sees it
Attempt(call, r) ==
    [tool_name |-> DictAt(call, "name"), arguments |-> DictAt(call, "arguments"),
     sent |-> r.sent, raised |-> r.res.raised, exc |-> r.res.exc, result |-> r.res.val]

\* The user types quit or exit: the loop ends.
Quit(user_input) ==
    /\ pc = "AwaitingUser"
    /\ Lower(user_input) \in {"quit", "exit"}
    /\ pc' = "Exited"
    /\ UNCHANGED <<harness, registry, conversation, response, response2, tool_call, turn, model_calls, dispatches, printed>>

\* UserTurn that inserts the user message after the system message, the way
\* the seed message is inserted, instead of appending it
UserTurnInserting(user_input) ==
    /\ pc = "AwaitingUser"
    /\ turn < MaxTurns
    /\ Lower(user_input) \notin {"quit", "exit"}
    /\ conversation' = <<Head(conversation), UserMessage(user_input)>> \o Tail(conversation)
    /\ model_calls' = <<ModelPayload(conversation', tools_ollama)>>
    /\ dispatches' = <<>>
    /\ printed' = <<>>
    /\ response' = PyNone
    /\ response2' = PyNone
    /\ tool_call' = PyNone
    /\ turn' = turn + 1
    /\ pc' = "ModelQuery1"
    /\ UNCHANGED <<harness, registry>>

\* A turn starts: the user message is appended and the model is queried.
UserTurn(user_input) ==
    /\ pc = "AwaitingUser"
    /\ turn < MaxTurns
    /\ Lower(user_input) \notin {"quit", "exit"}
    /\ conversation' = Append(conversation, UserMessage(user_input))
    /\ model_calls' = <<ModelPayload(conversation', tools_ollama)>>
    /\ dispatches' = <<>>
    /\ printed' = <<>>
    /\ response' = PyNone
    /\ response2' = PyNone
    /\ tool_call' = PyNone
    /\ turn' = turn + 1
    /\ pc' = "ModelQuery1"
    /\ UNCHANGED <<harness, registry>>

\* The ways call_local_model fails: requests.post raises (backend
\* unreachable, timeout) or raise_for_status raises on a status >= 400.
ModelFailures == {"ConnectionError", "HTTPError"}

\* call_local_model raises: nothing in the loop catches it, the exception
\* leaves mcp_conversation and the interpreter reports it and ends.
ModelFails(failure) ==
    /\ pc \in {"ModelQuery1", "RetryModelQuery", "ModelQuery2"}
    /\ pc' = "Crashed"
    /\ printed' = Append(printed, <<"Traceback (most recent call last):", PyStr(failure)>>)
    /\ UNCHANGED <<harness, registry, conversation, response, response2, tool_call, turn, model_calls, dispatches>>

\* The first model answer of the turn: a call is extracted, or the turn ends.
ModelReturns1(resp) ==
    /\ pc = "ModelQuery1"
    /\ LET tc == extract_tool_call(resp)
       IN  IF tc.raised
           THEN /\ pc' = "Crashed"
                /\ UNCHANGED <<tool_call, printed>>
           ELSE IF Truthy(tc.val)
           THEN /\ tool_call' = tc.val
                /\ printed' = Append(printed, <<"[Tool call detected:", tc.val>>)
                /\ pc' = "Dispatching"
           ELSE /\ printed' = Append(printed, <<"No tool_call found. Raw response for debugging:", resp>>)
                /\ pc' = "AwaitingUser"
                /\ UNCHANGED tool_call
    /\ response' = resp
    /\ UNCHANGED <<harness, registry, conversation, response2, turn, model_calls, dispatches>>

\* Dispatch that does not print the error it feeds back
DispatchQuiet(outcome) ==
    /\ pc = "Dispatching"
    /\ LET tool_name == DictAt(tool_call, "name")
           r == call_mcp_server(tool_name, DictAt(tool_call, "arguments"), tools, base_url, outcome)
       IN  /\ dispatches' = Append(dispatches, Attempt(tool_call, r))
           /\ IF r.res.raised
              THEN /\ conversation' = Append(conversation, ToolMessage(tool_name, ErrorContent(r.res.exc)))
                   /\ pc' = "RetryModelQuery"
              ELSE /\ conversation' = Append(conversation, ToolMessage(tool_name, JsonDumps(r.res.val)))
                   /\ pc' = "ModelQuery2"
           /\ model_calls' = QueryModel(conversation')
    /\ UNCHANGED <<harness, registry, response, response2, tool_call, turn, printed>>

\* Dispatch that re-queries the model before it appends the error
DispatchQueryThenAppend(outcome) ==
    /\ pc = "Dispatching"
    /\ LET tool_name == DictAt(tool_call, "name")
           r == call_mcp_server(tool_name, DictAt(tool_call, "arguments"), tools, base_url, outcome)
       IN  /\ dispatches' = Append(dispatches, Attempt(tool_call, r))
           /\ IF r.res.raised
              THEN /\ printed' = Append(printed, <<"Error:", PyStr(ErrorMsg(tool_name, r.res.exc))>>)
                   /\ conversation' = Append(conversation, ToolMessage(tool_name, ErrorContent(r.res.exc)))
                   /\ model_calls' = QueryModel(conversation)
                   /\ pc' = "RetryModelQuery"
              ELSE /\ conversation' = Append(conversation, ToolMessage(tool_name, JsonDumps(r.res.val)))
                   /\ model_calls' = QueryModel(conversation')
                   /\ pc' = "ModelQuery2"
                   /\ UNCHANGED printed
    /\ UNCHANGED <<harness, registry, response, response2, tool_call, turn>>

\* Dispatch that lets a ConnectionError end the turn instead of feeding it back
DispatchTransportFatal(outcome) ==
    /\ pc = "Dispatching"
    /\ LET tool_name == DictAt(tool_call, "name")
           r == call_mcp_server(tool_name, DictAt(tool_call, "arguments"), tools, base_url, outcome)
       IN  /\ dispatches' = Append(dispatches, Attempt(tool_call, r))
           /\ IF r.res.raised /\ r.res.exc.type = "ConnectionError"
              THEN /\ printed' = Append(printed, <<"Error:", PyStr(ErrorMsg(tool_name, r.res.exc))>>)
                   /\ pc' = "AwaitingUser"
                   /\ UNCHANGED <<conversation, model_calls>>
              ELSE IF r.res.raised
              THEN /\ printed' = Append(printed, <<"Error:", PyStr(ErrorMsg(tool_name, r.res.exc))>>)
                   /\ conversation' = Append(conversation, ToolMessage(tool_name, ErrorContent(r.res.exc)))
                   /\ model_calls' = QueryModel(conversation')
                   /\ pc' = "RetryModelQuery"
              ELSE /\ conversation' = Append(conversation, ToolMessage(tool_name, JsonDumps(r.res.val)))
                   /\ model_calls' = QueryModel(conversation')
                   /\ pc' = "ModelQuery2"
                   /\ UNCHANGED printed
    /\ UNCHANGED <<harness, registry, response, response2, tool_call, turn>>

\* Dispatch that registers the name the model used as another key of the
\* tool it resolved to
DispatchAliasing(outcome) ==
    /\ pc = "Dispatching"
    /\ LET tool_name == DictAt(tool_call, "name")
           r == call_mcp_server(tool_name, DictAt(tool_call, "arguments"), tools, base_url, outcome)
       IN  /\ dispatches' = Append(dispatches, Attempt(tool_call, r))
           /\ IF r.res.raised
              THEN /\ printed' = Append(printed, <<"Error:", PyStr(ErrorMsg(tool_name, r.res.exc))>>)
                   /\ conversation' = Append(conversation, ToolMessage(tool_name, ErrorContent(r.res.exc)))
                   /\ pc' = "RetryModelQuery"
              ELSE /\ conversation' = Append(conversation, ToolMessage(tool_name, JsonDumps(r.res.val)))
                   /\ pc' = "ModelQuery2"
                   /\ UNCHANGED printed
           /\ model_calls' = QueryModel(conversation')
           /\ tools' = IF ResolveTool(tool_name, tools).raised THEN tools
                       ELSE DictSet(tools, tool_name.v, DictAt(tools, ResolveTool(tool_name, tools).val.v))
    /\ UNCHANGED <<harness, base_url, tools_ollama, response, response2, tool_call, turn>>

\* The first dispatch: on an exception the error is printed, appended as a
\* tool message and the model is queried again; on success the result is
\* appended and the model is queried for its answer.
Dispatch(outcome) ==
    /\ pc = "Dispatching"
    /\ LET tool_name == DictAt(tool_call, "name")
           r == call_mcp_server(tool_name, DictAt(tool_call, "arguments"), tools, base_url, outcome)
       IN  /\ dispatches' = Append(dispatches, Attempt(tool_call, r))
           /\ IF r.res.raised
              THEN /\ printed' = Append(printed, <<"Error:", PyStr(ErrorMsg(tool_name, r.res.exc))>>)
                   /\ conversation' = Append(conversation, ToolMessage(tool_name, ErrorContent(r.res.exc)))
                   /\ pc' = "RetryModelQuery"
              ELSE /\ conversation' = Append(conversation, ToolMessage(tool_name, JsonDumps(r.res.val)))
                   /\ pc' = "ModelQuery2"
                   /\ UNCHANGED printed
           /\ model_calls' = QueryModel(conversation')
    /\ UNCHANGED <<harness, registry, response, response2, tool_call, turn>>

\* The model answer after an error: a new call to retry, or the end of the turn.
RetryModelReturns(resp) ==
    /\ pc = "RetryModelQuery"
    /\ LET tc2 == extract_tool_call(resp)
           assistant_msg == AssistantMsg(resp)
       IN  IF tc2.raised
           THEN /\ pc' = "Crashed"
                /\ UNCHANGED <<tool_call, printed>>
           ELSE IF Truthy(tc2.val)
           THEN /\ tool_call' = tc2.val
                /\ printed' = Append(printed, <<"[AI retrying with:", tc2.val>>)
                /\ pc' = "RetryDispatching"
           ELSE IF assistant_msg.raised
           THEN /\ pc' = "Crashed"
                /\ UNCHANGED <<tool_call, printed>>
           ELSE /\ printed' = IF Truthy(assistant_msg.val)
                              THEN Append(printed, <<"Assistant:", assistant_msg.val>>)
                              ELSE printed
                /\ pc' = "AwaitingUser"
                /\ UNCHANGED tool_call
    /\ response2' = resp
    /\ UNCHANGED <<harness, registry, conversation, response, turn, model_calls, dispatches>>

\* RetryDispatch that feeds a second error back and asks the model again
RetryDispatchAgain(outcome) ==
    /\ pc = "RetryDispatching"
    /\ LET tool_name2 == DictAt(tool_call, "name")
           r == call_mcp_server(tool_name2, DictAt(tool_call, "arguments"), tools, base_url, outcome)
       IN  /\ dispatches' = Append(dispatches, Attempt(tool_call, r))
           /\ IF r.res.raised
              THEN /\ printed' = Append(printed, <<"Error:", PyStr(ErrorMsg(tool_name2, r.res.exc))>>)
                   /\ conversation' = Append(conversation, ToolMessage(tool_name2, ErrorContent(r.res.exc)))
                   /\ pc' = "RetryModelQuery"
              ELSE /\ conversation' = Append(conversation, ToolMessage(tool_name2, JsonDumps(r.res.val)))
                   /\ pc' = "ModelQuery2"
                   /\ UNCHANGED printed
           /\ model_calls' = QueryModel(conversation')
    /\ UNCHANGED <<harness, registry, response, response2, tool_call, turn>>

\* RetryDispatch without the inner try: a second exception leaves the loop
RetryDispatchUncaught(outcome) ==
    /\ pc = "RetryDispatching"
    /\ LET tool_name2 == DictAt(tool_call, "name")
           r == call_mcp_server(tool_name2, DictAt(tool_call, "arguments"), tools, base_url, outcome)
       IN  /\ dispatches' = Append(dispatches, Attempt(tool_call, r))
           /\ IF r.res.raised
              THEN /\ pc' = "Crashed"
                   /\ UNCHANGED <<conversation, model_calls>>
              ELSE /\ conversation' = Append(conversation, ToolMessage(tool_name2, JsonDumps(r.res.val)))
                   /\ model_calls' = QueryModel(conversation')
                   /\ pc' = "ModelQuery2"
    /\ UNCHANGED <<harness, registry, response, response2, tool_call, turn, printed>>

\* RetryDispatch that ends the turn after a successful retry, without the
\* result message and the query for the answer
RetryDispatchDone(outcome) ==
    /\ pc = "RetryDispatching"
    /\ LET tool_name2 == DictAt(tool_call, "name")
           r == call_mcp_server(tool_name2, DictAt(tool_call, "arguments"), tools, base_url, outcome)
       IN  /\ dispatches' = Append(dispatches, Attempt(tool_call, r))
           /\ printed' = IF r.res.raised
                         THEN Append(printed, <<"Retry also failed:", PyStr(r.res.exc.msg)>>)
                         ELSE printed
    /\ pc' = "AwaitingUser"
    /\ UNCHANGED <<harness, registry, conversation, model_calls, response, response2, tool_call, turn>>

\* The retry dispatch: a second exception ends the turn, a success goes on as
\* after a first success, under the retried tool's name.
RetryDispatch(outcome) ==
    /\ pc = "RetryDispatching"
    /\ LET tool_name2 == DictAt(tool_call, "name")
           r == call_mcp_server(tool_name2, DictAt(tool_call, "arguments"), tools, base_url, outcome)
       IN  /\ dispatches' = Append(dispatches, Attempt(tool_call, r))
           /\ IF r.res.raised
              THEN /\ printed' = Append(printed, <<"Retry also failed:", PyStr(r.res.exc.msg)>>)
                   /\ pc' = "AwaitingUser"
                   /\ UNCHANGED <<conversation, model_calls>>
              ELSE /\ conversation' = Append(conversation, ToolMessage(tool_name2, JsonDumps(r.res.val)))
                   /\ model_calls' = QueryModel(conversation')
                   /\ pc' = "ModelQuery2"
                   /\ UNCHANGED printed
    /\ UNCHANGED <<harness, registry, response, response2, tool_call, turn>>

\* ModelReturns2 that prints nothing when the answer has no content
ModelReturns2Silent(resp) ==
    /\ pc = "ModelQuery2"
    /\ LET assistant_msg == AssistantMsg(resp)
       IN  IF assistant_msg.raised
           THEN /\ pc' = "Crashed"
                /\ UNCHANGED printed
           ELSE /\ printed' = IF Truthy(assistant_msg.val)
                              THEN Append(printed, <<"Assistant:", assistant_msg.val>>)
                              ELSE printed
                /\ pc' = "AwaitingUser"
    /\ response2' = resp
    /\ UNCHANGED <<harness, registry, conversation, response, tool_call, turn, model_calls, dispatches>>

\* ModelReturns2 that records the answer of the model in the transcript
ModelReturns2Recording(resp) ==
    /\ pc = "ModelQuery2"
    /\ LET assistant_msg == AssistantMsg(resp)
       IN  IF assistant_msg.raised
           THEN /\ pc' = "Crashed"
                /\ UNCHANGED printed
           ELSE /\ printed' = IF Truthy(assistant_msg.val)
                              THEN Append(printed, <<"Assistant:", assistant_msg.val>>)
                              ELSE Append(printed, <<"No assistant message after tool call. Raw response:", resp>>)
                /\ pc' = "AwaitingUser"
    /\ response2' = resp
    /\ conversation' = Append(conversation, DictGet(resp, "message", EmptyDict))
    /\ UNCHANGED <<harness, registry, response, tool_call, turn, model_calls, dispatches>>

\* The model answer after a tool result: printed, or the raw response is.
ModelReturns2(resp) ==
    /\ pc = "ModelQuery2"
    /\ LET assistant_msg == AssistantMsg(resp)
       IN  IF assistant_msg.raised
           THEN /\ pc' = "Crashed"
                /\ UNCHANGED printed
           ELSE /\ printed' = IF Truthy(assistant_msg.val)
                              THEN Append(printed, <<"Assistant:", assistant_msg.val>>)
                              ELSE Append(printed, <<"No assistant message after tool call. Raw response:", resp>>)
                /\ pc' = "AwaitingUser"
    /\ response2' = resp
    /\ UNCHANGED <<harness, registry, conversation, response, tool_call, turn, model_calls, dispatches>>

Next ==
    \/ \E user_input \in UserInputs : Quit(user_input)
    \/ \E user_input \in UserInputs : UserTurn(user_input)
    \/ \E failure \in ModelFailures : ModelFails(failure)
    \/ \E resp \in Responses : ModelReturns1(resp)
    \/ \E outcome \in BackendOutcomes : Dispatch(outcome)
    \/ \E resp \in Responses : RetryModelReturns(resp)
    \/ \E outcome \in BackendOutcomes : RetryDispatch(outcome)
    \/ \E resp \in Responses : ModelReturns2(resp)

Spec == Init /\ [][Next]_vars

\* a turn is under way: the loop waits for the model backend or the tool backend
InTurn == pc \in {"ModelQuery1", "Dispatching", "RetryModelQuery", "RetryDispatching", "ModelQuery2"}

\* The call the loop waits for returns or raises, and the loop moves on from
\* where it waited. requests.post and requests.get carry timeouts (180 s for
\* the model, 60 s for a tool), so no call of a turn waits for ever; the
\* prompt, which waits for the user, is under no such condition.
CallEnds ==
    /\ InTurn
    /\ pc' \in {"Dispatching", "RetryModelQuery", "RetryDispatching", "ModelQuery2", "AwaitingUser", "Crashed"}
    /\ pc' # pc

SpecLive == Init /\ [][Next]_vars /\ WF_pc(CallEnds)

----------------------------------------------------------------------------
(* call_mcp_server on its own: one call on drawn inputs                    *)

DispatchNames ==
    { PyStr("list_tasks"), PyStr("listTasks"), PyStr("LIST_TASKS"), PyStr("list-tasks"),
      PyStr("add_task"), PyStr("frobulate"), PyNone }

DispatchArguments ==
    { EmptyDict, PyDict(<< <<"filter", PyStr("flagged")>> >>), PyList(<<PyInt(1)>>), PyStr("x") }

InitDispatch ==
    /\ Constructed
    /\ fn_out = NotCalled
    /\ \E n \in DispatchNames, a \in DispatchArguments, o \in BackendOutcomes :
          fn_in = [fn |-> "call_mcp_server", tool_name |-> n, arguments |-> a, outcome |-> o]

CallMcpServer ==
    /\ fn_in.fn = "call_mcp_server"
    /\ ~fn_out.done
    /\ fn_out' = [done |-> TRUE,
                  r |-> call_mcp_server(fn_in.tool_name, fn_in.arguments, tools, base_url, fn_in.outcome)]
    /\ UNCHANGED <<pc, registry, conversation, response, response2, tool_call, turn,
                   model_calls, dispatches, printed, fn_in>>

NextDispatch == CallMcpServer

SpecDispatch == InitDispatch /\ [][NextDispatch]_vars

----------------------------------------------------------------------------
(* call_mcp_server on registries whose keys collide after normalization    *)

\* A tool under the name, reachable at /t/<name>
ToolAt(name) == PyDict(<< <<"name", PyStr(name)>>, <<"path", PyStr("/t/" \o name)>> >>)

\* Manifests listing names that differ in case only, in either order, and
\* next to a name of its own
CollidingManifests ==
    { PyDict(<< <<"tools", PyList(<<ToolAt("list_tasks"), ToolAt("List_Tasks")>>)>> >>),
      PyDict(<< <<"tools", PyList(<<ToolAt("List_Tasks"), ToolAt("list_tasks")>>)>> >>),
      PyDict(<< <<"tools", PyList(<<ToolAt("LIST_TASKS"), ToolAt("add_task"), ToolAt("List_Tasks")>>)>> >>) }

ResolveNames ==
    { PyStr("list_tasks"), PyStr("List_Tasks"), PyStr("LIST_TASKS"), PyStr("list-tasks"),
      PyStr("List-Tasks!"), PyStr("add_task"), PyStr("listtasks") }

InitResolve ==
    /\ \E manifest \in CollidingManifests : ConstructedFrom(manifest)
    /\ fn_out = NotCalled
    /\ \E n \in ResolveNames, a \in DispatchArguments, o \in BackendOutcomes :
          fn_in = [fn |-> "call_mcp_server", tool_name |-> n, arguments |-> a, outcome |-> o]

SpecResolve == InitResolve /\ [][NextDispatch]_vars

----------------------------------------------------------------------------
(* extract_tool_call on its own: one call on drawn responses               *)

\* The arguments a model may put in a call: mappings, strings that decode to
\* a mapping, to another JSON value or to nothing, the empty string, null and
\* values that are neither a string nor a mapping.
ExtractArguments ==
    { EmptyDict,
      PyDict(<< <<"filter", PyStr("flagged")>> >>),
      PyStr("{}"),
      PyStr("{\"filter\": \"flagged\"}"),
      PyStr("[1]"),
      PyStr("3"),
      PyStr("not json"),
      PyStr(""),
      PyNone,
      PyList(<<PyInt(1)>>),
      PyInt(3) }

ExtractCalls ==
    { PyDict(<< <<"name", PyStr("list_tasks")>>, <<"arguments", a>> >>) : a \in ExtractArguments }

\* A message carrying value under the key field
MessageWith(field, value) ==
    PyDict(<< <<"role", PyStr("assistant")>>, <<"content", PyStr("")>>, <<field, value>> >>)

\* A message whose content is text
MessageSaying(text) == PyDict(<< <<"role", PyStr("assistant")>>, <<"content", PyStr(text)>> >>)

InMessage(m) == PyDict(<< <<"message", m>> >>)

InMessages(m) == PyDict(<< <<"messages", PyList(<<m>>)>> >>)

\* The text of a call written as JSON under the key field
Embedded(field, call) == JsonDumps(PyDict(<< <<field, call>> >>))

\* The responses of one call: in the structured fields, in the fallback
\* container, and as content: clean, padded, after prose, cut short.
ResponsesOf(call) ==
    { InMessage(MessageWith("function_call", call)),
      InMessage(MessageWith("tool_call", call)),
      InMessages(MessageWith("function_call", call)),
      InMessage(MessageSaying(Embedded("function_call", call))),
      InMessage(MessageSaying("  " \o Embedded("function_call", call) \o "\n")),
      InMessage(MessageSaying("Sure: " \o Embedded("function_call", call))),
      InMessage(MessageSaying(SubSeq(Embedded("function_call", call), 1,
                                     Len(Embedded("function_call", call)) - 1))),
      InMessage(MessageSaying(Embedded("tool_call", call))) }

\* A message with both a function_call field and a content that is the
\* JSON text of another call; the field holds a call, is empty or is null.
ResponsesWithBoth ==
    { InMessage(PyDict(<< <<"role", PyStr("assistant")>>,
                          <<"content", PyStr(Embedded("function_call", call))>>,
                          <<"function_call", structured>> >>)) :
        call \in ExtractCalls,
        structured \in { PyDict(<< <<"name", PyStr("add_task")>>, <<"arguments", EmptyDict>> >>),
                         PyDict(<< <<"name", PyStr("add_task")>>, <<"arguments", PyStr("{\"title\": \"x\"}")>> >>),
                         EmptyDict, PyNone } }

ExtractResponses ==
    UNION { ResponsesOf(call) : call \in ExtractCalls }
      \cup ResponsesWithBoth
      \cup { Answer(PyStr("Hello")), EmptyDict, PyDict(<< <<"messages", PyList(<<>>)>> >>),
             InMessage(MessageWith("function_call", PyStr("list_tasks"))),
             InMessage(MessageSaying("{\"function_call\": \"list_tasks\"}")) }

InitExtract ==
    /\ Constructed
    /\ fn_out = NotCalled
    /\ \E resp \in ExtractResponses : fn_in = [fn |-> "extract_tool_call", response |-> resp]

ExtractToolCall ==
    /\ fn_in.fn = "extract_tool_call"
    /\ ~fn_out.done
    /\ fn_out' = [done |-> TRUE, r |-> extract_tool_call(fn_in.response)]
    /\ UNCHANGED <<pc, registry, conversation, response, response2, tool_call, turn,
                   model_calls, dispatches, printed, fn_in>>

NextExtract == ExtractToolCall

SpecExtract == InitExtract /\ [][NextExtract]_vars

----------------------------------------------------------------------------
(* The tool registry on its own: built from drawn manifests                *)

MaxTools == 3

\* Tool definitions a manifest may list: names that differ in case or in
\* punctuation only, one name under two definitions, a definition without a
\* name.
RegistryToolDefs ==
    { PyDict(<< <<"name", PyStr("list_tasks")>> >>),
      PyDict(<< <<"name", PyStr("List_Tasks")>> >>),
      PyDict(<< <<"name", PyStr("list-tasks")>> >>),
      PyDict(<< <<"name", PyStr("add_task")>> >>),
      PyDict(<< <<"name", PyStr("list_tasks")>>, <<"method", PyStr("GET")>> >>),
      PyDict(<< <<"description", PyStr("Unnamed")>> >>) }

RegistryManifests ==
    { PyDict(<< <<"tools", PyList(tl)>> >>) :
        tl \in UNION { [1..n -> RegistryToolDefs] : n \in 0..MaxTools } }

\* tool["name"] of every listed tool can be read
AllNamed(tools_list) == \A i \in 1..Len(tools_list) : HasKey(tools_list[i], "name")

\* tools = {tool["name"]: tool for tool in tools_list}, and the candidates
\* call_mcp_server derives from it
BuildRegistry(manifest) ==
    IF AllNamed(ToolsListOf(manifest))
    THEN [raised |-> FALSE, tools |-> ToolsOf(manifest), candidates |-> Candidates(ToolsOf(manifest))]
    ELSE [raised |-> TRUE, tools |-> EmptyDict, candidates |-> EmptyDict]

InitRegistry ==
    /\ Constructed
    /\ fn_out = NotCalled
    /\ \E manifest \in RegistryManifests : fn_in = [fn |-> "build_registry", manifest |-> manifest]

Build ==
    /\ fn_in.fn = "build_registry"
    /\ ~fn_out.done
    /\ fn_out' = [done |-> TRUE, r |-> BuildRegistry(fn_in.manifest)]
    /\ UNCHANGED <<pc, registry, conversation, response, response2, tool_call, turn,
                   model_calls, dispatches, printed, fn_in>>

NextRegistry == Build

SpecRegistry == InitRegistry /\ [][NextRegistry]_vars

----------------------------------------------------------------------------
(* call_local_model on its own: the payload of drawn messages and tools    *)

MaxMessages == 2

PayloadMessages ==
    { SystemMessage(<<>>), SeedAssistantMessage, UserMessage("list my tasks"),
      ToolMessage(PyStr("list_tasks"), "{\"tasks\": []}") }

\* The tools argument: left out (None), an empty list, the schemas of a manifest
PayloadTools ==
    { PyNone, PyList(<<>>) } \cup { mcp_tools_to_ollama_tools(manifest) : manifest \in Manifests }

InitPayload ==
    /\ Constructed
    /\ fn_out = NotCalled
    /\ \E n \in 0..MaxMessages : \E messages \in [1..n -> PayloadMessages] : \E t \in PayloadTools :
          fn_in = [fn |-> "call_local_model", messages |-> messages, tools |-> t]

CallLocalModel ==
    /\ fn_in.fn = "call_local_model"
    /\ ~fn_out.done
    /\ fn_out' = [done |-> TRUE, payload |-> ModelPayload(fn_in.messages, fn_in.tools)]
    /\ UNCHANGED <<pc, registry, conversation, response, response2, tool_call, turn,
                   model_calls, dispatches, printed, fn_in>>

NextPayload == CallLocalModel

SpecPayload == InitPayload /\ [][NextPayload]_vars

----------------------------------------------------------------------------
(* mcp_server: the tools that take a task_id                               *)

ServerTools ==
    { "complete_task", "rename_task", "move_task", "drop_project", "delete_task", "flag_task",
      "defer_task", "set_due_date", "pause_project", "resume_project", "set_repetition",
      "get_task_tags", "add_task_tags", "remove_task_tags", "set_task_tags",
      "get_task_note", "set_task_note", "append_task_note", "clear_task_note" }

\* The task_id of a call: missing, empty, blank in several ways, a real id
\* and a real id inside blanks
TaskIds ==
    { PyNone, PyStr(""), PyStr(" "), PyStr(" \t"), PyStr("\n"), PyStr("abc123"), PyStr(" abc123 ") }

\* The second argument of a call, by what the tool takes there: a list of
\* tags, the flag, a text or a date; tools without one are given None
SecondArgs(tool) ==
    CASE tool \in {"add_task_tags", "remove_task_tags", "set_task_tags"} ->
            { PyNone, PyList(<<>>), PyList(<<PyStr("home")>>) }
      [] tool = "flag_task" -> { PyBool(TRUE), PyBool(FALSE) }
      [] tool \in {"rename_task", "move_task", "defer_task", "set_due_date", "set_repetition",
                   "set_task_note", "append_task_note"} ->
            { PyNone, PyStr(""), PyStr(" "), PyStr("x") }
      [] OTHER -> { PyNone }

\* What osascript may do with a script: print JSON, print something else, fail
ScriptOutcomes ==
    { [ok |-> TRUE,  output |-> "{\"status\": \"ok\"}"],
      [ok |-> TRUE,  output |-> "done"],
      [ok |-> FALSE, output |-> "task not found"] }

ErrorReply(msg) == PyDict(<< <<"error", PyStr(msg)>> >>)

\* `not task_id or not task_id.strip()` with only the first test
TaskIdMissingUnstripped(task_id) == ~Truthy(task_id)

\* not task_id or not task_id.strip()
TaskIdMissing(task_id) == ~Truthy(task_id) \/ Strip(task_id.v) = ""

\* The check some tools make of their second argument, after the task_id:
\* the error text, or "" when the tool has no such check or it passes
MissingArgument(tool, arg) ==
    CASE tool = "rename_task" /\ TaskIdMissing(arg) -> "new_name is required"
      [] tool = "move_task" /\ TaskIdMissing(arg) -> "destination is required"
      [] tool \in {"add_task_tags", "remove_task_tags"} /\ ~Truthy(arg) -> "tags list is required"
      [] tool = "set_task_tags" /\ arg = PyNone -> "tags list is required (use [] to clear)"
      [] tool = "append_task_note" /\ ~Truthy(arg) -> "text is required"
      [] OTHER -> ""

\* The script a tool runs and the arguments it passes to it
ScriptCall(tool, task_id, arg) ==
    CASE tool = "complete_task" -> <<"complete_task.applescript", task_id>>
      [] tool = "rename_task" -> <<"update_task.applescript", task_id, "rename", arg.v>>
      [] tool = "move_task" -> <<"move_task.applescript", task_id, arg.v>>
      [] tool = "drop_project" -> <<"update_task.applescript", task_id, "drop">>
      [] tool = "delete_task" -> <<"update_task.applescript", task_id, "delete">>
      [] tool = "flag_task" ->
            <<"update_task.applescript", task_id, IF Truthy(arg) THEN "flag" ELSE "unflag">>
      [] tool = "defer_task" ->
            IF Truthy(arg) THEN <<"update_task.applescript", task_id, "defer", arg.v>>
            ELSE <<"update_task.applescript", task_id, "clear_defer">>
      [] tool = "set_due_date" ->
            IF Truthy(arg) THEN <<"update_task.applescript", task_id, "due", arg.v>>
            ELSE <<"update_task.applescript", task_id, "clear_due">>
      [] tool = "pause_project" -> <<"update_task.applescript", task_id, "pause">>
      [] tool = "resume_project" -> <<"update_task.applescript", task_id, "resume">>
      [] tool = "set_repetition" ->
            <<"set_repetition.applescript", task_id, IF Truthy(arg) THEN arg.v ELSE "none", "due">>
      [] tool = "get_task_tags" -> <<"manage_tags.applescript", task_id, "get", "[]">>
      [] tool = "add_task_tags" -> <<"manage_tags.applescript", task_id, "add", JsonDumps(arg)>>
      [] tool = "remove_task_tags" -> <<"manage_tags.applescript", task_id, "remove", JsonDumps(arg)>>
      [] tool = "set_task_tags" -> <<"manage_tags.applescript", task_id, "set", JsonDumps(arg)>>
      [] tool = "get_task_note" -> <<"manage_note.applescript", task_id, "get">>
      [] tool = "set_task_note" ->
            <<"manage_note.applescript", task_id, "set", IF Truthy(arg) THEN arg.v ELSE "">>
      [] tool = "append_task_note" -> <<"manage_note.applescript", task_id, "append", arg.v>>
      [] tool = "clear_task_note" -> <<"manage_note.applescript", task_id, "clear">>

\* run_script(path, *args): the stripped output, or AppleScriptError
run_script(call, outcome) ==
    IF outcome.ok THEN Ret(PyStr(Strip(outcome.output)))
    ELSE Raise("AppleScriptError",
               "osascript failed for " \o call[1] \o " (exit 1): " \o Strip(outcome.output))

\* return json.loads(output), except json.JSONDecodeError
DecodedReply(r) ==
    IF r.ok THEN r.val ELSE ErrorReply("Invalid JSON from AppleScript: Expecting value")

\* the try block of a tool: the script's reply, or the error as a value
ScriptReply(output) ==
    IF output.raised THEN ErrorReply(output.exc.msg) ELSE DecodedReply(JsonLoads(output.val.v))

\* A tool called with a task_id: what it returns and the scripts it has run
TaskTool(tool, task_id, arg, outcome) ==
    IF TaskIdMissing(task_id) THEN [val |-> ErrorReply("task_id is required"), ran |-> <<>>]
    ELSE IF MissingArgument(tool, arg) # ""
         THEN [val |-> ErrorReply(MissingArgument(tool, arg)), ran |-> <<>>]
    ELSE [val |-> ScriptReply(run_script(ScriptCall(tool, task_id.v, arg), outcome)),
          ran |-> <<ScriptCall(tool, task_id.v, arg)>>]

InitServer ==
    /\ Constructed
    /\ fn_out = NotCalled
    /\ \E tool \in ServerTools, t \in TaskIds, o \in ScriptOutcomes :
          \E a \in SecondArgs(tool) :
              fn_in = [fn |-> "mcp_tool", tool |-> tool, task_id |-> t, arg |-> a, outcome |-> o]

CallTool ==
    /\ fn_in.fn = "mcp_tool"
    /\ ~fn_out.done
    /\ fn_out' = [done |-> TRUE, r |-> TaskTool(fn_in.tool, fn_in.task_id, fn_in.arg, fn_in.outcome)]
    /\ UNCHANGED <<pc, registry, conversation, response, response2, tool_call, turn,
                   model_calls, dispatches, printed, fn_in>>

NextServer == CallTool

SpecServer == InitServer /\ [][NextServer]_vars

----------------------------------------------------------------------------
(* Properties                                                              *)

\* the turn last started has ended
TurnOver == pc \in {"AwaitingUser", "Exited"} /\ turn > 0

HasPrinted(label) == \E i \in 1..Len(printed) : printed[i][1] = label

LastPrinted == printed[Len(printed)]

\* the messages of the k-th model query of the turn
SentMessages(k) == DictAt(model_calls[k], "messages").v

Last(xs) == xs[Len(xs)]

\* m is the tool message that reports the error of dispatch attempt d
IsErrorMessageOf(m, d) ==
    /\ DictAt(m, "role") = PyStr("tool")
    /\ DictAt(m, "name") = d.tool_name
    /\ JsonLoads(DictAt(m, "content").v).ok
    /\ JsonLoads(DictAt(m, "content").v).val = PyDict(<< <<"error", PyStr(d.exc.msg)>> >>)

\* m is the tool message that carries the result of dispatch attempt d
IsResultMessageOf(m, d) ==
    /\ DictAt(m, "role") = PyStr("tool")
    /\ DictAt(m, "name") = d.tool_name
    /\ JsonLoads(DictAt(m, "content").v).ok
    /\ JsonLoads(DictAt(m, "content").v).val = d.result

\* C1: in every turn at most two calls of call_mcp_server are made, the first
\* dispatch and one retry, whatever the model answers and however the
\* dispatches fail.
C1_AtMostTwoDispatches == Len(dispatches) <= 2

C1_Witness == pc = "ModelQuery2" /\ Len(dispatches) = 2 /\ dispatches[1].raised

\* C2: when every dispatch fails and the model emits a call on the first query
\* and on the re-query, the turn makes exactly two dispatch attempts, never
\* more, and then aborts without another model query.
C2_AlwaysFailingTwoAttempts ==
    (\A i \in 1..Len(dispatches) : dispatches[i].raised) =>
        /\ Len(dispatches) <= 2
        /\ (TurnOver /\ HasPrinted("[Tool call detected:") /\ HasPrinted("[AI retrying with:")) =>
              /\ Len(dispatches) = 2
              /\ LastPrinted[1] = "Retry also failed:"
              /\ Len(model_calls) = 2

C2_Witness ==
    /\ pc = "AwaitingUser"
    /\ Len(dispatches) = 2
    /\ dispatches[1].exc.type = "HTTPError"
    /\ dispatches[2].exc.type = "HTTPError"

\* C3: with list_tasks the only tool, call_mcp_server("listTasks", args) issues
\* the request call_mcp_server("list_tasks", args) issues, POST
\* <base_url>/mcp/list_tasks with args as the JSON body, instead of failing as
\* an unknown tool.
C3_CamelCaseResolves ==
    (/\ fn_out.done
     /\ DictKeys(tools) = {"list_tasks"}
     /\ fn_in.tool_name.t = "str"
     /\ fn_in.tool_name.v = "listTasks"
     /\ IsDict(fn_in.arguments)) =>
        /\ fn_out.r.sent = call_mcp_server(PyStr("list_tasks"), fn_in.arguments, tools, base_url, fn_in.outcome).sent
        /\ fn_out.r.sent = << [method |-> "POST", url |-> RStripSlash(base_url) \o "/mcp/list_tasks",
                               carrier |-> "json", payload |-> fn_in.arguments] >>

\* C4: when the first model answer of a turn holds no tool call, the turn ends
\* with no dispatch and no further model query, and the content of the answer
\* is reported to the user as the final answer.
C4_NoCallAnswerReported ==
    (/\ TurnOver
     /\ response.t = "dict"
     /\ ~Truthy(extract_tool_call(response).val)) =>
        /\ dispatches = <<>>
        /\ Len(model_calls) = 1
        /\ printed = << <<"Assistant:", DictAt(DictAt(response, "message"), "content")>> >>

\* C5: a turn in which a dispatch failed has, when it ends, shown the user an
\* assistant message or a description of an error, also when the re-queried
\* model returns neither a call nor content.
C5_FailedTurnNotSilent ==
    (TurnOver /\ \E i \in 1..Len(dispatches) : dispatches[i].raised) =>
        \E j \in 1..Len(printed) :
            \/ printed[j][1] = "Assistant:" /\ Truthy(printed[j][2])
            \/ /\ printed[j][1] \in {"Error:", "Retry also failed:"}
               /\ \E i \in 1..Len(dispatches) :
                     dispatches[i].raised /\ Contains(printed[j][2].v, dispatches[i].exc.msg)

C5_Witness ==
    /\ TurnOver
    /\ Len(dispatches) = 1
    /\ dispatches[1].raised
    /\ response2 = Answer(PyStr(""))

\* C6: when the first dispatch of a turn fails, a tool message carrying the
\* error text is appended to the transcript right after the user message, and
\* the re-query of the model is sent the transcript ending with that message.
C6_ErrorFedBack ==
    (Len(dispatches) >= 1 /\ dispatches[1].raised) =>
        /\ Len(model_calls) >= 2
        /\ IsErrorMessageOf(Last(SentMessages(2)), dispatches[1])
        /\ SubSeq(SentMessages(2), 1, Len(SentMessages(2)) - 1) = SentMessages(1)
        /\ SubSeq(conversation, 1, Len(SentMessages(2))) = SentMessages(2)

C6_Witness ==
    /\ pc = "RetryModelQuery"
    /\ dispatches[1].exc.type = "RuntimeError"
    /\ StartsWith(dispatches[1].exc.msg, "Tool arguments must be an object")

C8_RetryFailureAborts ==
    (Len(dispatches) >= 2 /\ dispatches[2].raised) =>
        /\ TurnOver
        /\ Len(dispatches) = 2
        /\ Len(model_calls) = 2
        /\ LastPrinted = <<"Retry also failed:", PyStr(dispatches[2].exc.msg)>>
        /\ conversation = SentMessages(2)
        /\ IsErrorMessageOf(Last(conversation), dispatches[1])

C8_Witness ==
    /\ pc = "AwaitingUser"
    /\ Len(dispatches) = 2
    /\ dispatches[2].raised
    /\ dispatches[2].exc.type = "RuntimeError"

\* C9: a name that is no key of tools, directly or by its normalized form,
\* makes call_mcp_server raise the unknown-tool error, whose message lists
\* every key of tools, and no request is issued.
C9_UnknownToolListsNames ==
    (/\ fn_out.done
     /\ fn_in.tool_name.t = "str"
     /\ fn_in.tool_name.v \notin DictKeys(tools)
     /\ normalize(fn_in.tool_name.v) \notin {normalize(k) : k \in DictKeys(tools)}) =>
        /\ fn_out.r.res.raised
        /\ fn_out.r.sent = <<>>
        /\ StartsWith(fn_out.r.res.exc.msg, "Unknown tool: '" \o fn_in.tool_name.v \o "'")
        /\ \A k \in DictKeys(tools) :
              \/ Contains(fn_out.r.res.exc.msg, "Valid tools are: " \o k)
              \/ Contains(fn_out.r.res.exc.msg, ", " \o k)

C9_Witness ==
    /\ fn_out.done
    /\ fn_in.tool_name.t = "str"
    /\ fn_in.tool_name.v = "frobulate"
    /\ DictKeys(tools) = {"list_tasks", "add_task"}
    /\ fn_out.r.res.exc.msg = "Unknown tool: 'frobulate'. Valid tools are: add_task, list_tasks"

\* C10: when the first dispatch of a turn succeeds, a tool message carrying
\* the JSON text of the result is appended, the model is queried once more
\* on that transcript, no further dispatch is made, and the turn ends by
\* printing the answer or, when it has no content, the raw response.
C10_SuccessThenSummary ==
    (Len(dispatches) >= 1 /\ ~dispatches[1].raised) =>
        /\ Len(dispatches) = 1
        /\ Len(model_calls) = 2
        /\ pc \in {"ModelQuery2", "AwaitingUser", "Exited", "Crashed"}
        /\ conversation = SentMessages(2)
        /\ IsResultMessageOf(Last(conversation), dispatches[1])
        /\ SubSeq(conversation, 1, Len(conversation) - 1) = SentMessages(1)
        /\ TurnOver =>
              LET content == DictGet(DictAt(response2, "message"), "content", PyNone)
              IN  LastPrinted = IF Truthy(content)
                                THEN <<"Assistant:", content>>
                                ELSE <<"No assistant message after tool call. Raw response:", response2>>

C10_Witness ==
    /\ TurnOver
    /\ Len(dispatches) = 1
    /\ ~dispatches[1].raised
    /\ LastPrinted = <<"No assistant message after tool call. Raw response:", Answer(PyStr(""))>>

----------------------------------------------------------------------------
(* Properties of extract_tool_call                                         *)

\* extract_tool_call has been applied to the drawn response
Extracted == fn_in.fn = "extract_tool_call" /\ fn_out.done

\* the message of the drawn response, when it has one under "message"
GivenMessage == DictGet(fn_in.response, "message", PyNone)

\* the value the drawn message carries under field
GivenField(field) == DictGet(GivenMessage, field, PyNone)

\* the drawn message carries a call under field
CarriesCall(field) == IsDict(GivenMessage) /\ IsDict(GivenField(field))

\* the trimmed content of the drawn message
GivenContent == Strip(DictGet(GivenMessage, "content", PyStr("")).v)

\* the drawn message has no structured call and a string content
ContentOnly ==
    /\ IsDict(GivenMessage)
    /\ ~Truthy(GivenField("function_call"))
    /\ IsStr(DictGet(GivenMessage, "content", PyNone))

LooksEmbedded == StartsWith(GivenContent, "{") /\ Contains(GivenContent, "function_call")

\* C11: a call with a name and a mapping of arguments carried in the
\* message's function_call field or in its tool_call field is extracted as
\* that {name, arguments}, not as null.
C11_StructuredFieldsRecognized ==
    \A field \in {"function_call", "tool_call"} :
        (Extracted /\ CarriesCall(field) /\ IsDict(DictGet(GivenField(field), "arguments", PyNone)))
            => fn_out.r = Ret(GivenField(field))

\* C12: every non-null result of extract_tool_call is a record with a name
\* and with arguments that are a mapping.
C12_ArgumentsAlwaysMapping ==
    (Extracted /\ ~fn_out.r.raised /\ fn_out.r.val # PyNone)
        => (/\ IsDict(fn_out.r.val)
            /\ DictKeys(fn_out.r.val) = {"name", "arguments"}
            /\ IsDict(DictAt(fn_out.r.val, "arguments")))

\* the drawn message carries a function_call whose arguments are a non-empty
\* string that is not JSON
UndecodableArguments ==
    /\ CarriesCall("function_call")
    /\ IsStr(DictGet(GivenField("function_call"), "arguments", PyNone))
    /\ Truthy(DictGet(GivenField("function_call"), "arguments", PyNone))
    /\ ~JsonLoads(DictGet(GivenField("function_call"), "arguments", PyNone).v).ok

\* C13: a structured function_call whose arguments string is not decodable
\* JSON is extracted as the call of the given name with the arguments {},
\* and nothing is raised.
C13_UndecodableArgumentsGiveEmpty ==
    (Extracted /\ UndecodableArguments)
        => fn_out.r = Ret(PyDict(<< <<"name", DictGet(GivenField("function_call"), "name", PyNone)>>,
                                    <<"arguments", EmptyDict>> >>))

C13_Witness == Extracted /\ UndecodableArguments /\ ~fn_out.r.raised

\* C14: without a structured call, a content that does not start with "{"
\* after trimming or does not contain the text function_call yields no call,
\* and a content that does both but is not JSON yields no call either; in
\* neither case is anything raised.
C14_MalformedEmbeddedGivesNoCall ==
    (Extracted /\ ContentOnly /\ (~LooksEmbedded \/ ~JsonLoads(GivenContent).ok))
        => fn_out.r = Ret(PyNone)

C14_Witness ==
    Extracted /\ ContentOnly /\ LooksEmbedded /\ ~JsonLoads(GivenContent).ok /\ fn_out.r = Ret(PyNone)

----------------------------------------------------------------------------
(* Properties of call_mcp_server                                           *)

\* call_mcp_server has been applied to the drawn inputs
Called == fn_in.fn = "call_mcp_server" /\ fn_out.done

\* the drawn name is a key of tools or normalizes to one
NameResolves == ~ResolveTool(fn_in.tool_name, tools).raised

\* the key of tools the drawn name stands for
ResolvedName == ResolveTool(fn_in.tool_name, tools).val.v

\* every request issued carries a mapping
OnlyMappingsSent == \A i \in 1..Len(fn_out.r.sent) : IsDict(fn_out.r.sent[i].payload)

\* C15 as stated: a call whose arguments are not a mapping fails with the
\* invalid-arguments error and issues no request, and every request issued
\* carries a mapping.
C15_NonMappingIsInvalidArguments ==
    Called =>
        /\ ~IsDict(fn_in.arguments) =>
              /\ fn_out.r.res.raised
              /\ fn_out.r.res.exc = Exc("RuntimeError", InvalidArgumentsMsg(fn_in.arguments))
              /\ fn_out.r.sent = <<>>
        /\ OnlyMappingsSent

\* C15 amended: a call whose arguments are not a mapping fails and issues no
\* request; the failure is the invalid-arguments error whenever the name
\* resolves (name resolution comes first and its error wins otherwise); every
\* request issued carries a mapping.
C15_NonMappingNeverSent ==
    Called =>
        /\ ~IsDict(fn_in.arguments) =>
              /\ fn_out.r.res.raised
              /\ fn_out.r.sent = <<>>
              /\ NameResolves =>
                    fn_out.r.res.exc = Exc("RuntimeError", InvalidArgumentsMsg(fn_in.arguments))
        /\ OnlyMappingsSent

C15_Witness ==
    /\ Called
    /\ fn_in.arguments = PyList(<<PyInt(1)>>)
    /\ NameResolves
    /\ fn_out.r.res.exc.msg = "Tool arguments must be an object, got: [1]"
    /\ fn_out.r.sent = <<>>

\* the method the resolved tool declares, POST when it declares none
DeclaredMethod == Upper(DictGet(DictAt(tools, ResolvedName), "method", PyStr("POST")).v)

\* the path the resolved tool declares, /mcp/<name> when it declares none
DeclaredPath ==
    IF HasKey(DictAt(tools, ResolvedName), "path")
    THEN DictAt(DictAt(tools, ResolvedName), "path").v
    ELSE "/mcp/" \o ResolvedName

\* base_url without its trailing slash
BaseWithoutSlash ==
    IF Len(base_url) > 0 /\ SubSeq(base_url, Len(base_url), Len(base_url)) = "/"
    THEN SubSeq(base_url, 1, Len(base_url) - 1)
    ELSE base_url

\* C16: when the name resolves and the arguments are a mapping, exactly one
\* request is issued; it carries the arguments unchanged, as the query
\* parameters of a GET when the tool declares GET and as the JSON body of a
\* POST when it declares POST or nothing, and goes to base_url without its
\* trailing slash followed by the tool's path or /mcp/<name>.
C16_ArgumentsReachBackend ==
    (Called /\ NameResolves /\ IsDict(fn_in.arguments)) =>
        /\ Len(fn_out.r.sent) = 1
        /\ fn_out.r.sent[1].payload = fn_in.arguments
        /\ fn_out.r.sent[1].url = BaseWithoutSlash \o DeclaredPath
        /\ DeclaredMethod = "GET" =>
              fn_out.r.sent[1].method = "GET" /\ fn_out.r.sent[1].carrier = "params"
        /\ DeclaredMethod = "POST" =>
              fn_out.r.sent[1].method = "POST" /\ fn_out.r.sent[1].carrier = "json"

C16_Witness ==
    /\ Called
    /\ fn_in.tool_name = PyStr("LIST_TASKS")
    /\ fn_in.arguments = PyDict(<< <<"filter", PyStr("flagged")>> >>)
    /\ fn_out.r.sent = << [method |-> "GET", url |-> "http://h:8000/mcp/list_tasks",
                           carrier |-> "params",
                           payload |-> PyDict(<< <<"filter", PyStr("flagged")>> >>)] >>

----------------------------------------------------------------------------
(* Properties of the tool registry                                         *)

\* the registry of the drawn manifest has been built
Built == fn_in.fn = "build_registry" /\ fn_out.done

\* the tools the drawn manifest lists
ListedTools == ToolsListOf(fn_in.manifest)

\* the normalized names of the listed tools
NormalizedNames == { normalize(DictAt(ListedTools[i], "name").v) : i \in 1..Len(ListedTools) }

\* two listed tools have different names that normalize identically
NamesCollide ==
    \E i, j \in 1..Len(ListedTools) :
        /\ DictAt(ListedTools[i], "name") # DictAt(ListedTools[j], "name")
        /\ normalize(DictAt(ListedTools[i], "name").v) = normalize(DictAt(ListedTools[j], "name").v)

\* C17: the registry built from a manifest has exactly one entry per distinct
\* normalized tool name, and a manifest in which two tool names normalize
\* identically is flagged as an error.
C17_OneEntryPerNormalizedName ==
    (Built /\ AllNamed(ListedTools)) =>
        /\ NamesCollide => fn_out.r.raised
        /\ ~fn_out.r.raised => Cardinality(DictKeys(fn_out.r.tools)) = Cardinality(NormalizedNames)

----------------------------------------------------------------------------
(* Properties of the transcript and of the model queries                   *)

\* xs is a prefix of ys
IsPrefix(xs, ys) == Len(xs) <= Len(ys) /\ SubSeq(ys, 1, Len(xs)) = xs

\* the step is one of the model channel and the extractor
ModelStep == pc \in {"ModelQuery1", "RetryModelQuery", "ModelQuery2"}

\* the step is one of the dispatcher
DispatchStep == pc \in {"Dispatching", "RetryDispatching"}

\* C18: every step leaves the transcript as it was or appends to it: the
\* transcript before the step is a prefix of the transcript after it. A step
\* of the model channel and the extractor leaves it unchanged, and around a
\* dispatch the only change is the one tool message the loop appends.
C18_TranscriptAppendOnly ==
    [][ /\ IsPrefix(conversation, conversation')
        /\ ModelStep => conversation' = conversation
        /\ DispatchStep =>
              \/ conversation' = conversation
              \/ /\ Len(conversation') = Len(conversation) + 1
                 /\ DictAt(Last(conversation'), "role") = PyStr("tool") ]_vars

C18_Witness ==
    /\ turn = 2
    /\ pc = "AwaitingUser"
    /\ Len(conversation) >= 6
    /\ DictAt(conversation[4], "role") = PyStr("tool")

\* the payload of the drawn messages and tools has been built
PayloadBuilt == fn_in.fn = "call_local_model" /\ fn_out.done

\* a tool schema with at least one entry was supplied
SchemaSupplied == fn_in.tools.t = "list" /\ Len(fn_in.tools.v) > 0

\* C19: the payload of call_local_model has a functions field exactly when a
\* non-empty tool schema was supplied, and then the field is that schema; with
\* an empty list or without a schema it has neither a functions nor a tools
\* field.
C19_FunctionsOnlyWhenSupplied ==
    PayloadBuilt =>
        /\ ~HasKey(fn_out.payload, "tools")
        /\ HasKey(fn_out.payload, "functions") <=> SchemaSupplied
        /\ SchemaSupplied => DictAt(fn_out.payload, "functions") = fn_in.tools

C19_Witness ==
    /\ PayloadBuilt
    /\ fn_in.tools = PyList(<<>>)
    /\ Len(fn_in.messages) = 2
    /\ DictKeys(fn_out.payload) = {"model", "messages", "stream"}

\* the retry dispatch of the turn has been made and has succeeded
RetrySucceeded == Len(dispatches) = 2 /\ ~dispatches[2].raised

\* C20 as stated: the model is queried at most twice per user turn.
C20_AtMostTwoModelQueries == Len(model_calls) <= 2

\* C20 amended: after a retry dispatch succeeds its result is appended as a
\* tool message and the model is queried a third time for its answer, and
\* only then does the turn end; the model is queried at most three times per
\* user turn.
C20_AtMostThreeModelQueries ==
    /\ Len(model_calls) <= 3
    /\ RetrySucceeded =>
          /\ Len(model_calls) = 3
          /\ IsResultMessageOf(Last(SentMessages(3)), dispatches[2])
    /\ Len(model_calls) = 3 => RetrySucceeded

C20_Witness ==
    /\ TurnOver
    /\ RetrySucceeded
    /\ Len(model_calls) = 3
    /\ HasPrinted("[AI retrying with:")
    /\ LastPrinted[1] = "Assistant:"

\* a model query of the turn has failed
ModelChannelFailed ==
    /\ Len(printed) > 0
    /\ LastPrinted[1] = "Traceback (most recent call last):"
    /\ LastPrinted[2].v \in ModelFailures

\* C21: after a failure of a model query the loop is back at the prompt for
\* the next user input: the failure costs the turn, not the session.
C21_ModelFailureFailsTurnOnly == ModelChannelFailed => pc = "AwaitingUser"

\* C22: every turn under way ends with the loop back at the prompt for the
\* next user input, whatever the model answers and however the dispatches
\* end.
C22_TurnReachesPrompt == InTurn ~> pc = "AwaitingUser"

\* a turn under way ends, at the prompt or with the loop itself
TurnEnds == InTurn ~> pc \in {"AwaitingUser", "Crashed"}

----------------------------------------------------------------------------
(* The order of the two extraction strategies                              *)

\* the drawn message has a non-empty function_call field
StructuredGiven == IsDict(GivenMessage) /\ Truthy(GivenField("function_call"))

\* what the content of the drawn message decodes to
ContentDecoded == JsonLoads(GivenContent)

\* the function_call the decoded content holds
ContentCall == DictGet(ContentDecoded.val, "function_call", PyNone)

\* the content of the drawn message is the JSON text of a call: an object
\* with a non-empty function_call whose arguments are a mapping, a string or
\* missing
EmbeddedGiven ==
    /\ IsDict(GivenMessage)
    /\ IsStr(DictGet(GivenMessage, "content", PyNone))
    /\ LooksEmbedded
    /\ ContentDecoded.ok
    /\ IsDict(ContentDecoded.val)
    /\ IsDict(ContentCall)
    /\ Truthy(ContentCall)
    /\ DictGet(ContentCall, "arguments", PyStr("{}")).t \in {"dict", "str", "none"}

\* C23: with a non-empty function_call field the call returned is the one
\* of that field, whatever the content holds; the call in the content is
\* returned only when the field is missing or empty; null is returned only
\* when the field is missing or empty and the content holds no call.
C23_StructuredBeforeEmbedded ==
    Extracted =>
        /\ (StructuredGiven /\ IsDict(GivenField("function_call")) /\ ~fn_out.r.raised) =>
              /\ IsDict(fn_out.r.val)
              /\ DictAt(fn_out.r.val, "name") = DictGet(GivenField("function_call"), "name", PyNone)
        /\ (IsDict(GivenMessage) /\ ~StructuredGiven /\ EmbeddedGiven) =>
              /\ IsDict(fn_out.r.val)
              /\ DictAt(fn_out.r.val, "name") = DictGet(ContentCall, "name", PyNone)
        /\ fn_out.r = Ret(PyNone) => (~StructuredGiven /\ ~EmbeddedGiven)

C23_Witness ==
    /\ Extracted
    /\ StructuredGiven
    /\ EmbeddedGiven
    /\ DictAt(ContentCall, "name") = PyStr("list_tasks")
    /\ fn_out.r = Ret(GivenField("function_call"))
    /\ DictAt(fn_out.r.val, "name") = PyStr("add_task")

----------------------------------------------------------------------------
(* The registry and the transcript across turns                            *)

\* C24: no step of a turn adds, removes or changes an entry of tools or
\* changes base_url, whatever the model answers and however the dispatches
\* end, name resolution by normalization included.
C24_RegistryReadOnly == [][tools' = tools /\ base_url' = base_url]_vars

C24_Witness ==
    /\ TurnOver
    /\ Len(dispatches) = 1
    /\ dispatches[1].tool_name = PyStr("LIST_TASKS")
    /\ ~dispatches[1].raised
    /\ DictKeys(tools) = {"list_tasks", "add_task"}

\* the messages the turn appended after its user message
TurnTail == SubSeq(conversation, Len(SentMessages(1)) + 1, Len(conversation))

\* the positions of the transcript that hold a message of the role
Positions(role) == { i \in 1..Len(conversation) : DictAt(conversation[i], "role") = PyStr(role) }

\* the number of tool messages a completed turn appends
ToolMessagesDue ==
    IF dispatches = <<>> THEN 0
    ELSE IF ~dispatches[1].raised THEN 1
    ELSE IF Len(dispatches) = 2 /\ ~dispatches[2].raised THEN 2
    ELSE 1

\* C25: a completed turn has appended one user message, then as many tool
\* messages as its dispatches call for: none without a call, one after a
\* first success or after a failure whose retry found no call or failed
\* again, two after a failure and a successful retry (the error, then the
\* result under the name of the retried call). It has appended no other
\* message: the users' messages number the turns, and the one assistant
\* message is the seeded one at index 1 (the second of the transcript).
C25_TurnAppendsUserAndToolMessages ==
    TurnOver =>
        /\ SubSeq(conversation, 1, Len(SentMessages(1))) = SentMessages(1)
        /\ DictAt(Last(SentMessages(1)), "role") = PyStr("user")
        /\ \A i \in 1..Len(TurnTail) : DictAt(TurnTail[i], "role") = PyStr("tool")
        /\ Len(TurnTail) = ToolMessagesDue
        /\ (Len(dispatches) >= 1 /\ dispatches[1].raised) => IsErrorMessageOf(TurnTail[1], dispatches[1])
        /\ (Len(dispatches) >= 1 /\ ~dispatches[1].raised) => IsResultMessageOf(TurnTail[1], dispatches[1])
        /\ ToolMessagesDue = 2 => IsResultMessageOf(TurnTail[2], dispatches[2])
        /\ Cardinality(Positions("user")) = turn
        /\ Positions("assistant") = {2}

C25_Witness ==
    /\ TurnOver
    /\ turn = 2
    /\ Len(TurnTail) = 2
    /\ dispatches[1].tool_name = PyStr("frobulate")
    /\ DictAt(TurnTail[2], "name") = PyStr("LIST_TASKS")

----------------------------------------------------------------------------
(* The order of name resolution                                            *)

\* the keys of tools, in the order they were registered
RegisteredNames == [i \in 1..Len(tools.v) |-> tools.v[i][1]]

\* the positions of the keys that normalize as the drawn name does
Matching == { i \in 1..Len(RegisteredNames) : normalize(RegisteredNames[i]) = normalize(fn_in.tool_name.v) }

\* the key registered last among those that normalize as the drawn name does
LastMatching == RegisteredNames[CHOOSE i \in Matching : \A j \in Matching : j <= i]

\* the key of tools the request of the call went to (every tool of these
\* registries is reachable at /t/<key>)
Reached(key) ==
    /\ Len(fn_out.r.sent) = 1
    /\ fn_out.r.sent[1].url = "http://localhost:8000/t/" \o key

\* C26: a name that is a key of tools is dispatched to that very tool, also
\* when another key normalizes as it does; a name that is no key is
\* dispatched to the key registered last among those that normalize as it
\* does; a name no key normalizes as is an unknown tool, and nothing is
\* sent.
C26_ExactMatchFirst ==
    (Called /\ IsDict(fn_in.arguments)) =>
        /\ HasKey(tools, fn_in.tool_name.v) => Reached(fn_in.tool_name.v)
        /\ (~HasKey(tools, fn_in.tool_name.v) /\ Matching # {}) => Reached(LastMatching)
        /\ (~HasKey(tools, fn_in.tool_name.v) /\ Matching = {}) =>
              /\ fn_out.r.sent = <<>>
              /\ StartsWith(fn_out.r.res.exc.msg, "Unknown tool: ")

\* an exact match next to a later key that normalizes alike
C26_Witness ==
    /\ Called
    /\ RegisteredNames = <<"list_tasks", "List_Tasks">>
    /\ fn_in.tool_name = PyStr("list_tasks")
    /\ Reached("list_tasks")

----------------------------------------------------------------------------
(* Properties of the task_id tools                                         *)

\* a tool of the server has been called on the drawn arguments
ToolCalled == fn_in.fn = "mcp_tool" /\ fn_out.done

\* the drawn task_id is missing, empty or made of white space only
BlankTaskId ==
    \/ fn_in.task_id = PyNone
    \/ \A i \in 1..Len(fn_in.task_id.v) :
          SubSeq(fn_in.task_id.v, i, i) \in {" ", "\t", "\n", "\r"}

\* C27: every tool that takes a task_id, called with an empty or blank
\* task_id, returns {"error": "task_id is required"} and runs no script,
\* whatever its other argument is.
C27_BlankTaskIdRunsNothing ==
    (ToolCalled /\ BlankTaskId) =>
        /\ fn_out.r.val = PyDict(<< <<"error", PyStr("task_id is required")>> >>)
        /\ fn_out.r.ran = <<>>

C27_Witness ==
    /\ ToolCalled
    /\ fn_in.tool = "set_task_tags"
    /\ fn_in.task_id = PyStr(" \t")
    /\ fn_in.arg = PyList(<<PyStr("home")>>)
    /\ fn_out.r.ran = <<>>

====
